---- MODULE Spec2Model ----
(***************************************************************************)
(* Model of the whisper-cli Python wrapper:                                *)
(*   - python-wrapper/setup.py, WhisperInstall.download_whisper_binary     *)
(*     (the Installer);                                                    *)
(*   - python-wrapper/whisper_cli/cli.py, get_whisper_cli_path and main    *)
(*     (the Launcher).                                                     *)
(* The state is the part of the filesystem the two programs read and       *)
(* write, the host they run on, and the observable outcome of the last     *)
(* installer run and of the last launcher invocation.                      *)
(*                                                                         *)
(* Strings on which the code computes (lower(), startswith(), +=) are      *)
(* sequences of one-character strings; a path is a sequence of names.      *)
(***************************************************************************)
EXTENDS Integers, Sequences, FiniteSets, TLC

VARIABLES host, fs, installer, launcher

vars == <<host, fs, installer, launcher>>

(***************************************************************************)
(* Bounds of the model.                                                    *)
(***************************************************************************)
\* number of installer runs followed
MaxInstalls == 2
\* number of arguments after the program name
MaxArgs == 2
\* distinct file contents 1..MaxContent
MaxContent == 2
\* child exit statuses 0..MaxCode (plus one death by signal)
MaxCode == 2

(***************************************************************************)
(* String literals of the source.                                          *)
(***************************************************************************)
S_windows == <<"w","i","n","d","o","w","s">>
S_darwin == <<"d","a","r","w","i","n">>
S_linux == <<"l","i","n","u","x">>
S_win == <<"w","i","n">>
S_whisper == <<"w","h","i","s","p","e","r">>
S_dot_exe == <<".","e","x","e">>
S_whisper_exe == <<"w","h","i","s","p","e","r",".","e","x","e">>
S_whisper_win_exe == <<"w","h","i","s","p","e","r","-","w","i","n",".","e","x","e">>
S_whisper_macos == <<"w","h","i","s","p","e","r","-","m","a","c","o","s">>
S_whisper_linux == <<"w","h","i","s","p","e","r","-","l","i","n","u","x">>
S_whisper_cli == <<"w","h","i","s","p","e","r","_","c","l","i">>
S_bin == <<"b","i","n">>
S_dist == <<"d","i","s","t">>
S_cli_py == <<"c","l","i",".","p","y">>
S_setup_py == <<"s","e","t","u","p",".","p","y">>
S_python_wrapper == <<"p","y","t","h","o","n","-","w","r","a","p","p","e","r">>
S_repo == <<"r","e","p","o">>
S_lib == <<"l","i","b">>

(***************************************************************************)
(* str.lower() and str.startswith().                                       *)
(***************************************************************************)
LowerChar(c) ==
    CASE c = "W" -> "w"
      [] c = "D" -> "d"
      [] c = "L" -> "l"
      [] c = "F" -> "f"
      [] c = "B" -> "b"
      [] c = "S" -> "s"
      [] OTHER -> c

lower(s) == [i \in 1..Len(s) |-> LowerChar(s[i])]

startswith(s, prefix) ==
    /\ Len(s) >= Len(prefix)
    /\ SubSeq(s, 1, Len(prefix)) = prefix

(***************************************************************************)
(* Hosts: what platform.system() and sys.platform return there.            *)
(***************************************************************************)
Hosts ==
    { [system |-> <<"W","i","n","d","o","w","s">>, sys_platform |-> <<"w","i","n","3","2">>],
      [system |-> <<"D","a","r","w","i","n">>, sys_platform |-> <<"d","a","r","w","i","n">>],
      [system |-> <<"L","i","n","u","x">>, sys_platform |-> <<"l","i","n","u","x">>],
      [system |-> <<"F","r","e","e","B","S","D">>, sys_platform |-> <<"f","r","e","e","b","s","d">>] }

(***************************************************************************)
(* Paths.  install_lib is where the package manager puts the package;      *)
(* cli.py is installed in install_lib/whisper_cli, setup.py lives in       *)
(* repo/python-wrapper.                                                    *)
(***************************************************************************)
install_lib == <<S_lib>>
CliFile == install_lib \o <<S_whisper_cli, S_cli_py>>
SetupFile == <<S_repo, S_python_wrapper, S_setup_py>>

\* os.path.dirname / Path.parent
parent(p) == SubSeq(p, 1, Len(p) - 1)

(***************************************************************************)
(* Filesystem entries.                                                     *)
(***************************************************************************)
\* 0o755, the mode the installer sets
ExecMode == 493
\* 0o644, the mode of a file created by open() under the usual umask
DefaultMode == 420
\* the content of a file whose copy was interrupted
PartialContent == 0

Absent == [kind |-> "absent", content |-> 0, mode |-> 0]
Dir == [kind |-> "dir", content |-> 0, mode |-> 0]
File(c, m) == [kind |-> "file", content |-> c, mode |-> m]

Contents == 1..MaxContent
Modes == {DefaultMode, ExecMode}
Files == {File(c, m) : c \in Contents, m \in Modes}

\* os.path.exists / Path.exists
exists(f, p) == f[p].kind # "absent"

(***************************************************************************)
(* Faults of the environment during one installer run: each filesystem     *)
(* primitive may fail for reasons outside the program (permissions, a full *)
(* disk, a locked file).  copy: "open" fails before the target is opened,  *)
(* "partial" after the target was truncated and partly written, "stat"     *)
(* after the data was written but before the metadata was copied.          *)
(***************************************************************************)
CopyFaults == {"none", "open", "partial", "stat"}
Faults == [mkdir : BOOLEAN, copy : CopyFaults, chmod : BOOLEAN]

(***************************************************************************)
(* Path.mkdir(parents=True, exist_ok=True) on p.  The parents of the       *)
(* install directory exist (the package was installed before), so only p   *)
(* itself is created.  An existing directory is accepted; an existing      *)
(* non-directory raises FileExistsError; creating may fail.                *)
(***************************************************************************)
mkdir_exist_ok_false(f, p, fault) ==
    IF f[p].kind # "absent" \/ fault
    THEN [ok |-> FALSE, fs |-> f]
    ELSE [ok |-> TRUE, fs |-> [f EXCEPT ![p] = Dir]]

mkdir(f, p, fault) ==
    CASE f[p].kind = "dir" -> [ok |-> TRUE, fs |-> f]
      [] f[p].kind = "file" -> [ok |-> FALSE, fs |-> f]
      [] OTHER -> IF fault
                  THEN [ok |-> FALSE, fs |-> f]
                  ELSE [ok |-> TRUE, fs |-> [f EXCEPT ![p] = Dir]]

(***************************************************************************)
(* shutil.copy2(src, dst): copyfile (open src, open/truncate dst, copy     *)
(* the bytes) followed by copystat (mode and times of src onto dst).       *)
(***************************************************************************)
ModeOfNew(f, dst) == IF f[dst].kind = "file" THEN f[dst].mode ELSE DefaultMode

copy2(f, src, dst, fault) ==
    CASE f[src].kind # "file" \/ fault = "open" ->
            [ok |-> FALSE, fs |-> f]
      [] fault = "partial" ->
            [ok |-> FALSE,
             fs |-> [f EXCEPT ![dst] = File(PartialContent, ModeOfNew(f, dst))]]
      [] fault = "stat" ->
            [ok |-> FALSE,
             fs |-> [f EXCEPT ![dst] = File(f[src].content, ModeOfNew(f, dst))]]
      [] OTHER ->
            [ok |-> TRUE,
             fs |-> [f EXCEPT ![dst] = File(f[src].content, f[src].mode)]]

(***************************************************************************)
(* os.chmod(p, mode)                                                       *)
(***************************************************************************)
chmod_keeps_mode(f, p, mode, fault) ==
    IF fault \/ f[p].kind = "absent"
    THEN [ok |-> FALSE, fs |-> f]
    ELSE [ok |-> TRUE, fs |-> f]

chmod(f, p, mode, fault) ==
    IF fault \/ f[p].kind = "absent"
    THEN [ok |-> FALSE, fs |-> f]
    ELSE [ok |-> TRUE, fs |-> [f EXCEPT ![p].mode = mode]]

(***************************************************************************)
(* The Installer: WhisperInstall.download_whisper_binary.                  *)
(***************************************************************************)
\* the if/elif chain on system: the (binary_name, executable_name) pair
SelectBinary_else_linux(system) ==
    CASE system = S_windows ->
            [supported |-> TRUE, binary_name |-> S_whisper_win_exe,
             executable_name |-> S_whisper_exe]
      [] system = S_darwin ->
            [supported |-> TRUE, binary_name |-> S_whisper_macos,
             executable_name |-> S_whisper]
      [] OTHER ->
            [supported |-> TRUE, binary_name |-> S_whisper_linux,
             executable_name |-> S_whisper]

SelectBinary(system) ==
    CASE system = S_windows ->
            [supported |-> TRUE, binary_name |-> S_whisper_win_exe,
             executable_name |-> S_whisper_exe]
      [] system = S_darwin ->
            [supported |-> TRUE, binary_name |-> S_whisper_macos,
             executable_name |-> S_whisper]
      [] system = S_linux ->
            [supported |-> TRUE, binary_name |-> S_whisper_linux,
             executable_name |-> S_whisper]
      [] OTHER ->
            [supported |-> FALSE, binary_name |-> <<>>, executable_name |-> <<>>]

\* install_dir = Path(self.install_lib) / 'whisper_cli' / 'bin'
install_dir == install_lib \o <<S_whisper_cli, S_bin>>

\* binary_path = install_dir / executable_name
binary_path(sel) == Append(install_dir, sel.executable_name)

\* local_binary = Path(__file__).parent.parent / 'dist' / binary_name
local_binary(sel) == parent(parent(SetupFile)) \o <<S_dist, sel.binary_name>>

(***************************************************************************)
(* The try block.  The log is the sequence of completed filesystem         *)
(* operations ("mkdir", "copy", "chmod"), of faults raised ("raise_...")   *)
(* and of lines printed ("print_..."), in program order; pre is the log    *)
(* up to the try.                                                          *)
(***************************************************************************)
InstallTry_inverted_exists(f, system, sel, faults, pre) ==
    LET cp == copy2(f, local_binary(sel), binary_path(sel), faults.copy)
    IN  IF exists(f, local_binary(sel))
        THEN [fs |-> f, outcome |-> "missing",
              log |-> pre \o <<"print_not_found", "print_build_hint">>]
        ELSE [fs |-> cp.fs, outcome |-> "failed",
              log |-> pre \o <<"raise_copy", "print_failed", "print_manual">>]

InstallTry(f, system, sel, faults, pre) ==
    LET cp == copy2(f, local_binary(sel), binary_path(sel), faults.copy)
        ch == chmod(cp.fs, binary_path(sel), ExecMode, faults.chmod)
    IN  IF ~exists(f, local_binary(sel))
        THEN [fs |-> f, outcome |-> "missing",
              log |-> pre \o <<"print_not_found", "print_build_hint">>]
        ELSE IF ~cp.ok
        THEN [fs |-> cp.fs, outcome |-> "failed",
              log |-> pre \o <<"raise_copy", "print_failed", "print_manual">>]
        ELSE IF system = S_windows
        THEN [fs |-> cp.fs, outcome |-> "success",
              log |-> pre \o <<"copy", "print_copied",
                               "print_success", "print_usage">>]
        ELSE IF ~ch.ok
        THEN [fs |-> ch.fs, outcome |-> "failed",
              log |-> pre \o <<"copy", "print_copied", "raise_chmod",
                               "print_failed", "print_manual">>]
        ELSE [fs |-> ch.fs, outcome |-> "success",
              log |-> pre \o <<"copy", "print_copied", "chmod",
                               "print_success", "print_usage">>]

\* outcome "raised": an exception left download_whisper_binary
download_whisper_binary(f, platform_system, faults) ==
    LET system == lower(platform_system)
        sel == SelectBinary(system)
        mk == mkdir(f, install_dir, faults.mkdir)
    IN  IF ~sel.supported
        THEN [fs |-> f, outcome |-> "unsupported", sel |-> sel,
              log |-> <<"print_unsupported", "print_use_npm">>]
        ELSE IF ~mk.ok
        THEN [fs |-> mk.fs, outcome |-> "raised", sel |-> sel,
              log |-> <<"raise_mkdir">>]
        ELSE LET t == InstallTry(mk.fs, system, sel, faults,
                                 <<"mkdir", "print_downloading">>)
             IN  [fs |-> t.fs, outcome |-> t.outcome, sel |-> sel, log |-> t.log]

(***************************************************************************)
(* The Launcher: get_whisper_cli_path and main.                            *)
(***************************************************************************)
get_whisper_cli_path(sys_platform) ==
    LET base_dir == parent(CliFile)
        cli_executable == IF startswith(sys_platform, S_win)
                          THEN S_whisper \o S_dot_exe
                          ELSE S_whisper
    IN  Append(base_dir, cli_executable)

(***************************************************************************)
(* Whether the operating system can execute the entry at p: a regular      *)
(* file, with the execute bits set except on Windows, where there are      *)
(* none.  os.path.exists is true of more: directories and files that       *)
(* cannot be executed.                                                     *)
(***************************************************************************)
Runnable(f, p, sys_platform) ==
    /\ f[p].kind = "file"
    /\ startswith(sys_platform, S_win) \/ f[p].mode = ExecMode

(***************************************************************************)
(* subprocess.run(cmd, check=check): cmd is the program and the arguments  *)
(* that follow it, rc the status the child ends with (negative: killed by  *)
(* a signal).  A program that cannot be executed raises OSError and no     *)
(* child runs; with check, a non-zero status raises CalledProcessError.    *)
(***************************************************************************)
subprocess_run_no_check(f, cmd, check, rc, sys_platform) ==
    IF ~Runnable(f, cmd.program, sys_platform)
    THEN [spawned |-> <<>>, raised |-> "OSError"]
    ELSE [spawned |-> <<[cmd |-> cmd, returncode |-> rc]>>, raised |-> "none"]

subprocess_run(f, cmd, check, rc, sys_platform) ==
    IF ~Runnable(f, cmd.program, sys_platform)
    THEN [spawned |-> <<>>, raised |-> "OSError"]
    ELSE [spawned |-> <<[cmd |-> cmd, returncode |-> rc]>>,
          raised |-> IF check /\ rc # 0 THEN "CalledProcessError" ELSE "none"]

(***************************************************************************)
(* main(), run as a process: argv is sys.argv, program name first.  The    *)
(* process ends with status 1 on sys.exit(1) and on an exception nobody    *)
(* catches, and with status 0 when main returns.  attempted: whether       *)
(* subprocess.run was called.                                              *)
(***************************************************************************)
main_no_exit(f, sys_platform, argv, rc) ==
    LET cli_path == get_whisper_cli_path(sys_platform)
        run == subprocess_run(f, [program |-> cli_path, args |-> Tail(argv)],
                              TRUE, rc, sys_platform)
    IN  [exit |-> IF run.raised # "none" THEN 1 ELSE 0,
         spawned |-> run.spawned,
         out |-> IF ~exists(f, cli_path) THEN <<"print_not_found">> ELSE <<>>,
         raised |-> run.raised, attempted |-> TRUE]

main_passes_argv(f, sys_platform, argv, rc) ==
    LET cli_path == get_whisper_cli_path(sys_platform)
        run == subprocess_run(f, [program |-> cli_path, args |-> argv],
                              TRUE, rc, sys_platform)
    IN  IF ~exists(f, cli_path)
        THEN [exit |-> 1, spawned |-> <<>>, out |-> <<"print_not_found">>,
              raised |-> "SystemExit", attempted |-> FALSE]
        ELSE [exit |-> IF run.raised # "none" THEN 1 ELSE 0,
              spawned |-> run.spawned, out |-> <<>>, raised |-> run.raised,
              attempted |-> TRUE]

main(f, sys_platform, argv, rc) ==
    LET cli_path == get_whisper_cli_path(sys_platform)
        run == subprocess_run(f, [program |-> cli_path, args |-> Tail(argv)],
                              TRUE, rc, sys_platform)
    IN  IF ~exists(f, cli_path)
        THEN [exit |-> 1, spawned |-> <<>>, out |-> <<"print_not_found">>,
              raised |-> "SystemExit", attempted |-> FALSE]
        ELSE [exit |-> IF run.raised # "none" THEN 1 ELSE 0,
              spawned |-> run.spawned, out |-> <<>>, raised |-> run.raised,
              attempted |-> TRUE]

(***************************************************************************)
(* The state machine.                                                      *)
(***************************************************************************)
\* the paths the two programs can touch
FsPaths ==
    { install_dir,
      Append(install_dir, S_whisper), Append(install_dir, S_whisper_exe),
      Append(parent(CliFile), S_whisper), Append(parent(CliFile), S_whisper_exe),
      <<S_repo, S_dist, S_whisper_win_exe>>,
      <<S_repo, S_dist, S_whisper_macos>>,
      <<S_repo, S_dist, S_whisper_linux>> }

\* the files that matter on host h: the executable name used there and the
\* artifact built for it (on any other system, the generic Unix ones)
HostFiles(h) ==
    CASE h.sys_platform = <<"w","i","n","3","2">> ->
            [exe |-> S_whisper_exe, artifact |-> S_whisper_win_exe]
      [] h.sys_platform = <<"d","a","r","w","i","n">> ->
            [exe |-> S_whisper, artifact |-> S_whisper_macos]
      [] OTHER ->
            [exe |-> S_whisper, artifact |-> S_whisper_linux]

\* entries of the install directory and of the file in it, before a run: the
\* directory is missing, or blocked by a regular file, or there, empty or with
\* the executable of an earlier install
InitInstalled ==
    { <<Absent, Absent>>, <<File(1, DefaultMode), Absent>>, <<Dir, Absent>> }
        \cup { <<Dir, e>> : e \in Files }

ProgramNames == {"whisper"}
Args == {"--help", "scan"}
ArgLists == UNION { [1..n -> Args] : n \in 0..MaxArgs }
Argvs == { <<p>> \o a : p \in ProgramNames, a \in ArgLists }
\* -9: the child was killed by SIGKILL
ReturnCodes == (0..MaxCode) \cup {-9}

InitInstaller(f) ==
    [runs |-> 0, outcome |-> "none", prevOutcome |-> "none", log |-> <<>>,
     sel |-> [supported |-> FALSE, binary_name |-> <<>>, executable_name |-> <<>>],
     before |-> f]

InitLauncher ==
    [ran |-> FALSE, argv |-> <<>>, exit |-> 0, spawned |-> <<>>, out |-> <<>>,
     raised |-> "none", attempted |-> FALSE]

Init ==
    /\ host \in Hosts
    /\ \E inst \in InitInstalled, src \in {Absent, Dir} \cup Files,
          bin \in {Absent, Dir, File(1, DefaultMode), File(1, ExecMode)} :
          fs = [p \in FsPaths |->
                  CASE p = install_dir -> inst[1]
                    [] p = Append(install_dir, HostFiles(host).exe) -> inst[2]
                    [] p = <<S_repo, S_dist, HostFiles(host).artifact>> -> src
                    [] p = Append(parent(CliFile), HostFiles(host).exe) -> bin
                    [] OTHER -> Absent]
    /\ installer = InitInstaller(fs)
    /\ launcher = InitLauncher

\* WhisperInstall.run: the package manager's install hook
Install ==
    /\ installer.runs < MaxInstalls
    /\ \E faults \in Faults :
          LET r == download_whisper_binary(fs, host.system, faults)
          IN  /\ fs' = r.fs
              /\ installer' = [runs |-> installer.runs + 1,
                               outcome |-> r.outcome,
                               prevOutcome |-> installer.outcome,
                               log |-> r.log,
                               sel |-> r.sel,
                               before |-> fs]
    /\ UNCHANGED <<host, launcher>>

\* one invocation of the whisper / whisper-ai console script
Launch ==
    /\ \E argv \in Argvs, rc \in ReturnCodes :
          LET r == main(fs, host.sys_platform, argv, rc)
          IN  launcher' = [ran |-> TRUE, argv |-> argv, exit |-> r.exit,
                           spawned |-> r.spawned, out |-> r.out,
                           raised |-> r.raised, attempted |-> r.attempted]
    /\ UNCHANGED <<host, fs, installer>>

Next == Install \/ Launch

Spec == Init /\ [][Next]_vars

\* the installer alone: install-time behaviour, no launcher invocation
SpecInstaller == Init /\ [][Install]_vars

\* the launcher alone, started in every filesystem state of Init
SpecLauncher == Init /\ [][Launch]_vars

(***************************************************************************)
(* Vocabulary of the properties.                                           *)
(***************************************************************************)
\* the path the launcher resolves on this host
CliPath == get_whisper_cli_path(host.sys_platform)

\* the host's documented (artifact, executable) pair, by platform.system()
OnWindows == host.system = <<"W","i","n","d","o","w","s">>
OnDarwin == host.system = <<"D","a","r","w","i","n">>
OnLinux == host.system = <<"L","i","n","u","x">>
SupportedHost == OnWindows \/ OnDarwin \/ OnLinux

\* the documented layout: <package-root>/bin/<executable-name>
TargetPath ==
    <<S_lib, S_whisper_cli, S_bin, IF OnWindows THEN S_whisper_exe ELSE S_whisper>>

\* the documented artifact of the host
SourcePath ==
    <<S_repo, S_dist,
      IF OnWindows THEN S_whisper_win_exe
      ELSE IF OnDarwin THEN S_whisper_macos ELSE S_whisper_linux>>

\* x occurs in the sequence s
Logged(x) == \E i \in 1..Len(installer.log) : installer.log[i] = x

\* x occurs in the log before y
LoggedBefore(x, y) ==
    \E i, j \in 1..Len(installer.log) :
        i < j /\ installer.log[i] = x /\ installer.log[j] = y

\* the last installer run ended without an exception in any step
Clean(outcome) == outcome \in {"success", "missing", "unsupported"}

(***************************************************************************)
(* C1.  Whenever the resolved binary path exists and the child ran, the    *)
(* launcher's exit status equals the child's exit status.                  *)
(***************************************************************************)
C1_ExitEqualsChild ==
    (launcher.ran /\ exists(fs, CliPath) /\ launcher.spawned # <<>>)
        => launcher.exit = launcher.spawned[1].returncode

(***************************************************************************)
(* C2.  After an install that reported success, the path the launcher      *)
(* resolves is the path the installer wrote, so the launcher finds the     *)
(* binary there.                                                           *)
(***************************************************************************)
C2_LauncherFindsInstalled ==
    installer.outcome = "success"
        => /\ CliPath = binary_path(installer.sel)
           /\ exists(fs, CliPath)

(***************************************************************************)
(* C3.  No fault of any step leaves download_whisper_binary.               *)
(***************************************************************************)
C3_NoFaultPropagates == installer.outcome # "raised"

(***************************************************************************)
(* C4.  If the resolved path does not exist, the launcher prints the       *)
(* diagnostic and exits with status 1 through sys.exit, and subprocess.run *)
(* is never called: no child is spawned.                                   *)
(***************************************************************************)
C4_MissingExitsBeforeSpawn ==
    (launcher.ran /\ ~exists(fs, CliPath))
        => /\ launcher.exit = 1
           /\ launcher.raised = "SystemExit"
           /\ launcher.out = <<"print_not_found">>
           /\ ~launcher.attempted
           /\ launcher.spawned = <<>>

C4_Witness ==
    /\ launcher.ran
    /\ ~exists(fs, CliPath)
    /\ launcher.exit = 1
    /\ Len(launcher.argv) > 1

(***************************************************************************)
(* C5.  The forwarding property: exactly one child, whose program is the   *)
(* resolved path and whose arguments are sys.argv[1:], unchanged.          *)
(***************************************************************************)
Forwarded ==
    /\ Len(launcher.spawned) = 1
    /\ launcher.spawned[1].cmd.program = CliPath
    /\ Len(launcher.spawned[1].cmd.args) = Len(launcher.argv) - 1
    /\ \A i \in 1..Len(launcher.spawned[1].cmd.args) :
          launcher.spawned[1].cmd.args[i] = launcher.argv[i + 1]

\* C5 as stated: whenever the resolved path exists, the arguments are
\* forwarded to exactly one child.
C5_Original == (launcher.ran /\ exists(fs, CliPath)) => Forwarded

\* C5 as amended: whenever the resolved path is a file the system can
\* execute, the arguments are forwarded to exactly one child; when the path
\* exists but cannot be executed, no child runs and the launcher exits 1.
C5_ForwardsWhenRunnable ==
    /\ (launcher.ran /\ Runnable(fs, CliPath, host.sys_platform)) => Forwarded
    /\ (launcher.ran /\ exists(fs, CliPath)
          /\ ~Runnable(fs, CliPath, host.sys_platform))
        => (launcher.spawned = <<>> /\ launcher.exit = 1)

C5_Witness ==
    /\ launcher.ran
    /\ Runnable(fs, CliPath, host.sys_platform)
    /\ Len(launcher.argv) = 3
    /\ launcher.argv[2] # launcher.argv[3]
    /\ Forwarded

(***************************************************************************)
(* C6.  Platform selection: the three supported systems select exactly     *)
(* their documented pair, and nothing but the install directory and the    *)
(* pair's target is written; any other system gets the warning, and the    *)
(* filesystem is untouched, and the call returns normally.                 *)
(***************************************************************************)
C6_PlatformSelection ==
    installer.runs > 0 =>
        /\ OnWindows =>
              /\ installer.sel.binary_name = S_whisper_win_exe
              /\ installer.sel.executable_name = S_whisper_exe
        /\ OnDarwin =>
              /\ installer.sel.binary_name = S_whisper_macos
              /\ installer.sel.executable_name = S_whisper
        /\ OnLinux =>
              /\ installer.sel.binary_name = S_whisper_linux
              /\ installer.sel.executable_name = S_whisper
        /\ SupportedHost =>
              /\ installer.outcome # "unsupported"
              /\ \A p \in FsPaths \ {install_dir, TargetPath} :
                    fs[p] = installer.before[p]
              /\ installer.outcome = "success" =>
                    fs[TargetPath].content = installer.before[SourcePath].content
        /\ ~SupportedHost =>
              /\ installer.outcome = "unsupported"
              /\ installer.log = <<"print_unsupported", "print_use_npm">>
              /\ fs = installer.before

C6_Witness ==
    /\ installer.runs > 0
    /\ OnDarwin
    /\ installer.outcome = "success"
    /\ installer.sel.binary_name = S_whisper_macos

(***************************************************************************)
(* C7.  What a finished install leaves: the target exists with the         *)
(* source's contents, mode 0755 except on Windows, where no chmod is made  *)
(* and the mode is the one copy2 carried over; success is printed after    *)
(* the copy and, off Windows, the chmod.                                   *)
(***************************************************************************)
Installed ==
    /\ fs[TargetPath].kind = "file"
    /\ fs[TargetPath].content = installer.before[SourcePath].content
    /\ ~OnWindows => fs[TargetPath].mode = ExecMode
    /\ OnWindows =>
          /\ ~Logged("chmod") /\ ~Logged("raise_chmod")
          /\ installer.outcome = "success" =>
                fs[TargetPath].mode = installer.before[SourcePath].mode
    /\ Logged("print_success") =>
          /\ LoggedBefore("copy", "print_success")
          /\ ~OnWindows => LoggedBefore("chmod", "print_success")

NoCopyNoChmod ==
    /\ ~Logged("copy") /\ ~Logged("raise_copy")
    /\ ~Logged("chmod") /\ ~Logged("raise_chmod")

\* C8 as stated: no copy, no permission change, the target does not exist
\* after the call, and the call does not raise.
C8_Original ==
    (installer.runs > 0 /\ SupportedHost
        /\ installer.before[SourcePath].kind = "absent")
        => /\ NoCopyNoChmod
           /\ ~exists(fs, TargetPath)
           /\ installer.outcome # "raised"

\* C8 as amended: no copy and no permission change is made and the target
\* path is left exactly as it was before the call (absent if it was absent,
\* the file of an earlier install still there); the call reports the missing
\* source, and the only fault that can leave it is one of the directory
\* creation, which leaves the whole filesystem as it was.
C8_TargetUntouched ==
    (installer.runs > 0 /\ SupportedHost
        /\ installer.before[SourcePath].kind = "absent")
        => /\ NoCopyNoChmod
           /\ fs[TargetPath] = installer.before[TargetPath]
           /\ installer.outcome \in {"missing", "raised"}
           /\ installer.outcome = "missing" => Logged("print_not_found")
           /\ installer.outcome = "raised" =>
                 (installer.log = <<"raise_mkdir">> /\ fs = installer.before)

C8_Witness ==
    /\ installer.runs > 0
    /\ SupportedHost
    /\ installer.before[SourcePath].kind = "absent"
    /\ installer.before[TargetPath].kind = "file"
    /\ installer.outcome = "missing"
    /\ exists(fs, TargetPath)

MkdirIdempotent ==
    /\ fs[install_dir].kind = "dir" =>
          \A fault \in BOOLEAN :
              mkdir(fs, install_dir, fault) = [ok |-> TRUE, fs |-> fs]
    /\ \A fault1, fault2 \in BOOLEAN :
          LET once == mkdir(fs, install_dir, fault1)
          IN  once.ok => mkdir(once.fs, install_dir, fault2) = once

====
